---- MODULE Spec2Model ----
(***************************************************************************)
(* A model of web_scraper.py: the sitemap reader, the article extractor,   *)
(* the batch writer and the driver loop of main().                         *)
(*                                                                         *)
(* Text is modelled as a sequence of one-character strings, so that the    *)
(* regular expressions, str.split and json.loads of the source are         *)
(* computed character by character.                                        *)
(***************************************************************************)
EXTENDS Integers, Sequences, FiniteSets, TLC

(***************************************************************************)
(* Python values: None, str, bool, list and dict.  A dict is a function    *)
(* from its keys (texts) to values.                                        *)
(***************************************************************************)
None == [t |-> "null", v |-> <<>>]
Str(s) == [t |-> "str", v |-> s]
Bool(b) == [t |-> "bool", v |-> b]
Arr(xs) == [t |-> "arr", v |-> xs]
Obj(f) == [t |-> "obj", v |-> f]
EmptyDict == <<>>

Quote == "\""
Whitespace == {" "}
Digit == {"0", "1", "2", "3", "4", "5", "6", "7", "8", "9"}

\* s[at..] starts with the text lit
StartsWithAt(s, at, lit) ==
    /\ at >= 1
    /\ at + Len(lit) - 1 <= Len(s)
    /\ \A k \in 1..Len(lit) : s[at + k - 1] = lit[k]

(***************************************************************************)
(* json.loads, restricted to the texts of string literals without escapes, *)
(* null, true, false, arrays and objects (the alphabet of the pages of     *)
(* this model holds no digit, sign, backslash or upper-case letter).       *)
(* A parse yields [ok, v, i]: success, the value, the index after it.       *)
(***************************************************************************)
ParseFail == [ok |-> FALSE, v |-> None, i |-> 0]
ParseOk(val, next) == [ok |-> TRUE, v |-> val, i |-> next]

RECURSIVE SkipWs(_, _)
SkipWs(s, at) ==
    IF at <= Len(s) /\ s[at] \in Whitespace THEN SkipWs(s, at + 1) ELSE at

RECURSIVE ClosingQuote(_, _)
\* the index of the first quote from index at on, or 0
ClosingQuote(s, at) ==
    IF at > Len(s) THEN 0
    ELSE IF s[at] = Quote THEN at
    ELSE ClosingQuote(s, at + 1)

\* s[at] is an opening quote
ParseString(s, at) ==
    LET j == ClosingQuote(s, at + 1) IN
    IF j = 0 THEN ParseFail ELSE ParseOk(Str(SubSeq(s, at + 1, j - 1)), j + 1)

LitNull == <<"n", "u", "l", "l">>
LitTrue == <<"t", "r", "u", "e">>
LitFalse == <<"f", "a", "l", "s", "e">>

RECURSIVE ParseValue(_, _)
RECURSIVE ParseMembers(_, _, _)
RECURSIVE ParseElements(_, _, _)

\* the value that starts at index at (whitespace before it already skipped)
ParseValue(s, at) ==
    IF at > Len(s) THEN ParseFail
    ELSE IF s[at] = Quote THEN ParseString(s, at)
    ELSE IF s[at] = "{" THEN
        LET j == SkipWs(s, at + 1) IN
        IF j <= Len(s) /\ s[j] = "}" THEN ParseOk(Obj(EmptyDict), j + 1)
        ELSE ParseMembers(s, j, EmptyDict)
    ELSE IF s[at] = "[" THEN
        LET j == SkipWs(s, at + 1) IN
        IF j <= Len(s) /\ s[j] = "]" THEN ParseOk(Arr(<<>>), j + 1)
        ELSE ParseElements(s, j, <<>>)
    ELSE IF StartsWithAt(s, at, LitNull) THEN ParseOk(None, at + Len(LitNull))
    ELSE IF StartsWithAt(s, at, LitTrue) THEN ParseOk(Bool(TRUE), at + Len(LitTrue))
    ELSE IF StartsWithAt(s, at, LitFalse) THEN ParseOk(Bool(FALSE), at + Len(LitFalse))
    ELSE ParseFail

\* the members of an object from the key at index at on; a repeated key keeps its
\* last value
ParseMembers(s, at, acc) ==
    IF at > Len(s) \/ s[at] # Quote THEN ParseFail
    ELSE
        LET key == ParseString(s, at) IN
        IF ~key.ok THEN ParseFail
        ELSE
            LET c == SkipWs(s, key.i) IN
            IF c > Len(s) \/ s[c] # ":" THEN ParseFail
            ELSE
                LET val == ParseValue(s, SkipWs(s, c + 1)) IN
                IF ~val.ok THEN ParseFail
                ELSE
                    LET e == SkipWs(s, val.i)
                        dict == (key.v.v :> val.v) @@ acc
                    IN  IF e > Len(s) THEN ParseFail
                        ELSE IF s[e] = "}" THEN ParseOk(Obj(dict), e + 1)
                        ELSE IF s[e] = "," THEN ParseMembers(s, SkipWs(s, e + 1), dict)
                        ELSE ParseFail

\* the elements of an array from the value at index at on
ParseElements(s, at, acc) ==
    LET val == ParseValue(s, at) IN
    IF ~val.ok THEN ParseFail
    ELSE
        LET e == SkipWs(s, val.i)
            list == Append(acc, val.v)
        IN  IF e > Len(s) THEN ParseFail
            ELSE IF s[e] = "]" THEN ParseOk(Arr(list), e + 1)
            ELSE IF s[e] = "," THEN ParseElements(s, SkipWs(s, e + 1), list)
            ELSE ParseFail

\* json.loads(s): [ok, v]; ok = FALSE stands for json.JSONDecodeError
json_loads(s) ==
    LET r == ParseValue(s, SkipWs(s, 1)) IN
    IF r.ok /\ SkipWs(s, r.i) = Len(s) + 1 THEN [ok |-> TRUE, v |-> r.v]
    ELSE [ok |-> FALSE, v |-> None]

(***************************************************************************)
(* re.search(r'{.*}', text, re.DOTALL): greedy, so the match runs from the *)
(* first "{" to the last "}" after it.  [found, group].                    *)
(***************************************************************************)
IndicesOf(s, c) == {k \in 1..Len(s) : s[k] = c}
SetMin(S) == CHOOSE x \in S : \A y \in S : x <= y
SetMax(S) == CHOOSE x \in S : \A y \in S : x >= y

\* a slip: the non-greedy {.*?}, which stops at the first "}"
BraceSearch_nongreedy(text) ==
    LET opens == IndicesOf(text, "{")
        after == IF opens = {} THEN {}
                 ELSE {k \in IndicesOf(text, "}") : k > SetMin(opens)}
    IN  IF after = {}
        THEN [found |-> FALSE, group |-> <<>>]
        ELSE [found |-> TRUE, group |-> SubSeq(text, SetMin(opens), SetMin(after))]

BraceSearch(text) ==
    LET opens == IndicesOf(text, "{")
        closes == IndicesOf(text, "}")
    IN  IF opens = {} \/ closes = {} \/ SetMax(closes) < SetMin(opens)
        THEN [found |-> FALSE, group |-> <<>>]
        ELSE [found |-> TRUE, group |-> SubSeq(text, SetMin(opens), SetMax(closes))]

\* ArticleScraper.extract_metadata: the dict parsed from the brace span, {}
\* when there is no span or json.loads raises JSONDecodeError
extract_metadata(script_content) ==
    LET json_data == BraceSearch(script_content) IN
    IF ~json_data.found THEN EmptyDict
    ELSE
        LET parsed == json_loads(json_data.group) IN
        IF parsed.ok THEN parsed.v.v ELSE EmptyDict

\* dict.get(key, default)
GetOr(metadata, key, default) ==
    IF key \in DOMAIN metadata THEN metadata[key] ELSE default
\* dict.get(key)
Get(metadata, key) == GetOr(metadata, key, None)

RECURSIVE SplitComma(_)
\* str.split(','): the pieces between commas, as a sequence of texts
SplitComma(s) ==
    LET commas == IndicesOf(s, ",") IN
    IF commas = {} THEN <<s>>
    ELSE LET c == SetMin(commas) IN
         <<SubSeq(s, 1, c - 1)>> \o SplitComma(SubSeq(s, c + 1, Len(s)))

StrList(pieces) == Arr([k \in 1..Len(pieces) |-> Str(pieces[k])])

\* the keys scrape_article reads
K_type == <<"t", "y", "p", "e">>
K_postid == <<"p", "o", "s", "t", "i", "d">>
K_title == <<"t", "i", "t", "l", "e">>
K_url == <<"u", "r", "l">>
K_keywords == <<"k", "e", "y", "w", "o", "r", "d", "s">>
K_thumbnail == <<"t", "h", "u", "m", "b", "n", "a", "i", "l">>
K_video_duration ==
    <<"v", "i", "d", "e", "o", "_", "d", "u", "r", "a", "t", "i", "o", "n">>
K_word_count == <<"w", "o", "r", "d", "_", "c", "o", "u", "n", "t">>
K_lang == <<"l", "a", "n", "g">>
K_published_time ==
    <<"p", "u", "b", "l", "i", "s", "h", "e", "d", "_", "t", "i", "m", "e">>
K_last_updated == <<"l", "a", "s", "t", "_", "u", "p", "d", "a", "t", "e", "d">>
K_description == <<"d", "e", "s", "c", "r", "i", "p", "t", "i", "o", "n">>
K_author == <<"a", "u", "t", "h", "o", "r">>
K_classes == <<"c", "l", "a", "s", "s", "e", "s">>
K_html == <<"h", "t", "m", "l">>
K_lite_url == <<"l", "i", "t", "e", "_", "u", "r", "l">>

\* a slip: last_updated copied from the line above it, key and all
Article_copy_paste(metadata) ==
    [ type |-> Get(metadata, K_type),
      postid |-> Get(metadata, K_postid),
      title |-> Get(metadata, K_title),
      url |-> Get(metadata, K_url),
      keywords |-> StrList(SplitComma(GetOr(metadata, K_keywords, Str(<<>>)).v)),
      thumbnail |-> Get(metadata, K_thumbnail),
      video_duration |-> Get(metadata, K_video_duration),
      word_count |-> Get(metadata, K_word_count),
      lang |-> Get(metadata, K_lang),
      published_time |-> Get(metadata, K_published_time),
      last_updated |-> Get(metadata, K_published_time),
      description |-> Get(metadata, K_description),
      author |-> Get(metadata, K_author),
      classes |-> GetOr(metadata, K_classes, Arr(<<>>)),
      html |-> GetOr(metadata, K_html, Str(<<>>)),
      lite_url |-> Get(metadata, K_lite_url) ]

\* the Article dataclass, built from a metadata dict whose keywords value has
\* a split method (is a str)
Article(metadata) ==
    [ type |-> Get(metadata, K_type),
      postid |-> Get(metadata, K_postid),
      title |-> Get(metadata, K_title),
      url |-> Get(metadata, K_url),
      keywords |-> StrList(SplitComma(GetOr(metadata, K_keywords, Str(<<>>)).v)),
      thumbnail |-> Get(metadata, K_thumbnail),
      video_duration |-> Get(metadata, K_video_duration),
      word_count |-> Get(metadata, K_word_count),
      lang |-> Get(metadata, K_lang),
      published_time |-> Get(metadata, K_published_time),
      last_updated |-> Get(metadata, K_last_updated),
      description |-> Get(metadata, K_description),
      author |-> Get(metadata, K_author),
      classes |-> GetOr(metadata, K_classes, Arr(<<>>)),
      html |-> GetOr(metadata, K_html, Str(<<>>)),
      lite_url |-> Get(metadata, K_lite_url) ]

(***************************************************************************)
(* requests.get: it raises (no response), or it returns a response with a  *)
(* status code and a body, whatever the status code is.                    *)
(***************************************************************************)
NetworkError == [kind |-> "error", status |-> 0, content |-> <<>>]
Response(status, content) ==
    [kind |-> "response", status |-> status, content |-> content]

METADATA_ID == "tawsiyat-metadata"

\* soup.find('script', id='tawsiyat-metadata'): the first such script, or none.
\* A page is [scripts, paragraphs]; a script is [id, text].
FindScript(page) ==
    LET hits == {k \in 1..Len(page.scripts) : page.scripts[k].id = METADATA_ID} IN
    IF hits = {} THEN [found |-> FALSE, text |-> <<>>]
    ELSE [found |-> TRUE, text |-> page.scripts[SetMin(hits)].text]

Raised(exc) == [raised |-> TRUE, exc |-> exc, article |-> None]
Returned(article) == [raised |-> FALSE, exc |-> "", article |-> article]

\* ArticleScraper.scrape_article, from the outcome of its requests.get.  The
\* text joined from the <p> elements is computed and not used.
scrape_article(resp) ==
    IF resp.kind = "error" THEN Raised("RequestException")
    ELSE
        LET script_tag == FindScript(resp.content)
            metadata == IF script_tag.found THEN extract_metadata(script_tag.text)
                        ELSE EmptyDict
        IN  IF GetOr(metadata, K_keywords, Str(<<>>)).t # "str"
            THEN Raised("AttributeError")
            ELSE Returned(Article(metadata))

(***************************************************************************)
(* The article pages the site serves.  A metadata mapping is written into  *)
(* the script element as JSON text (", " and ": " separators), keys in the *)
(* order of the record's fields.                                           *)
(***************************************************************************)
FieldOrder ==
    << K_type, K_postid, K_title, K_url, K_keywords, K_thumbnail,
       K_video_duration, K_word_count, K_lang, K_published_time,
       K_last_updated, K_description, K_author, K_classes, K_html, K_lite_url >>
FieldKeys == {FieldOrder[k] : k \in 1..Len(FieldOrder)}

RECURSIVE SetToSeq(_)
SetToSeq(S) ==
    IF S = {} THEN <<>>
    ELSE LET x == CHOOSE y \in S : TRUE IN <<x>> \o SetToSeq(S \ {x})

KeySeq(S) ==
    SelectSeq(FieldOrder, LAMBDA k : k \in S) \o SetToSeq(S \ FieldKeys)

RECURSIVE JoinComma(_)
\* the texts of a sequence, joined by ", "
JoinComma(parts) ==
    IF parts = <<>> THEN <<>>
    ELSE IF Len(parts) = 1 THEN parts[1]
    ELSE parts[1] \o <<",", " ">> \o JoinComma(Tail(parts))

RECURSIVE Encode(_)
Encode(val) ==
    CASE val.t = "str" -> <<Quote>> \o val.v \o <<Quote>>
      [] val.t = "null" -> LitNull
      [] val.t = "bool" -> IF val.v THEN LitTrue ELSE LitFalse
      [] val.t = "arr" ->
            <<"[">> \o JoinComma([k \in 1..Len(val.v) |-> Encode(val.v[k])]) \o <<"]">>
      [] val.t = "obj" ->
            LET keys == KeySeq(DOMAIN val.v) IN
            <<"{">>
            \o JoinComma([k \in 1..Len(keys) |->
                    <<Quote>> \o keys[k] \o <<Quote, ":", " ">> \o Encode(val.v[keys[k]])])
            \o <<"}">>

Page(scripts) == [scripts |-> scripts, paragraphs |-> <<<<"p">>>>]
Script(id, text) == [id |-> id, text |-> text]
MetaPage(text) == Page(<<Script("ld-json", <<"{", "}">>), Script(METADATA_ID, text)>>)
NoMetaPages == {Page(<<>>), Page(<<Script("ld-json", <<"{", "}">>)>>)}

\* metadata mappings holding all 16 keys
S_a == <<"a">>
FullMeta(title, keywords, duration, classes, html) ==
    [k \in FieldKeys |->
        IF k = K_title THEN title
        ELSE IF k = K_keywords THEN keywords
        ELSE IF k = K_video_duration THEN duration
        ELSE IF k = K_lite_url THEN duration
        ELSE IF k = K_classes THEN classes
        ELSE IF k = K_html THEN html
        ELSE Str(k)]
TitleValues == {Str(S_a), Str(<<"}", " ", "{">>)}
KeywordTexts == {<<>>, S_a, <<"a", ",", "b">>, <<",">>, <<"a", ",", " ", "b", ",">>}
OptionalValues == {None, Str(S_a)}
ClassValues ==
    { Arr(<<>>),
      Arr(<<Obj((<<"k">> :> Str(S_a)))>>),
      Arr(<<Obj((<<"k">> :> Str(S_a)) @@ (<<"m">> :> Str(<<"{">>))), Obj(EmptyDict)>>) }
HtmlValues == {Str(<<>>), Str(<<"<", "p", ">">>)}

\* valid mappings: keywords is a comma-separated string
ValidMetas ==
    { FullMeta(t, Str(kw), d, c, h) :
        t \in TitleValues, kw \in KeywordTexts, d \in OptionalValues,
        c \in ClassValues, h \in HtmlValues }
\* mappings whose keywords value is no string
BadKeywordMetas ==
    { FullMeta(Str(S_a), kw, None, Arr(<<>>), Str(<<>>)) :
        kw \in {None, Arr(<<Str(S_a)>>)} }
\* mappings that hold only some of the keys
PartialMetas ==
    { (K_type :> Str(S_a)),
      (K_keywords :> Str(<<"a", ",", "b">>)) @@ (K_url :> Str(S_a)),
      (K_classes :> Arr(<<Obj(EmptyDict)>>)) @@ (K_html :> Str(S_a)),
      (<<"x">> :> Str(S_a)) }

\* script texts that hold no brace span, or a span that is no JSON document
SampleText == Encode(Obj(FullMeta(Str(S_a), Str(S_a), None, Arr(<<Obj(EmptyDict)>>), Str(<<>>))))
MalformedTexts ==
    { <<>>,
      <<"v", "a", "r", " ", "x">>,
      <<"}", " ", "{">>,
      <<"{">>,
      <<"}">>,
      <<"{", "a", "}">>,
      <<"{", Quote, "a", Quote, "}">>,
      <<"{", Quote, "a", Quote, ":", "}">>,
      <<"{", Quote, "a", Quote, ":", Quote, "b", Quote, ",", "}">>,
      <<"{", Quote, "a", Quote, ":", Quote, "b", "}">>,
      <<"{", "a", ":", Quote, "b", Quote, "}">>,
      <<"{", Quote, "a", Quote, ":", "[", Quote, "b", Quote, ",", "]", "}">>,
      <<"{", "}", "{", "}">>,
      <<"{", "}", ";", " ", "x", "=", "{", "}">>,
      Encode(Obj((K_type :> Str(S_a)))) \o <<";", " ", "{", "}">>,
      SampleText \o SampleText,
      SubSeq(SampleText, 1, Len(SampleText) - 1),
      Tail(SampleText),
      SampleText \o <<";", "}">>,
      <<"{", " ">> \o SampleText }

(***************************************************************************)
(* The sitemap reader.  A sitemap body is the sequence of its leaf         *)
(* elements [tag, text] in document order; find_all('loc') keeps the text  *)
(* of the loc elements.                                                    *)
(***************************************************************************)
Element(tag, text) == [tag |-> tag, text |-> text]
Loc(url) == Element("loc", url)

LocTexts(body) ==
    LET locs == SelectSeq(body, LAMBDA e : e.tag = "loc") IN
    [k \in 1..Len(locs) |-> locs[k].text]

\* SitemapParser.get_monthly_sitemaps, from the outcome of its requests.get
get_monthly_sitemaps(resp) ==
    IF resp.kind = "error" THEN [raised |-> TRUE, urls |-> <<>>]
    ELSE [raised |-> FALSE, urls |-> LocTexts(resp.content)]

\* a slip: the request error is swallowed and an empty list returned
get_article_urls_swallow(resp) ==
    IF resp.kind = "error" THEN [raised |-> FALSE, urls |-> <<>>]
    ELSE [raised |-> FALSE, urls |-> LocTexts(resp.content)]

\* SitemapParser.get_article_urls, from the outcome of its requests.get
get_article_urls(resp) ==
    IF resp.kind = "error" THEN [raised |-> TRUE, urls |-> <<>>]
    ELSE [raised |-> FALSE, urls |-> LocTexts(resp.content)]

(***************************************************************************)
(* re.search(r'sitemap-(\d{4})-(\d{1,2})\.xml', sitemap_url): the leftmost *)
(* position where the pattern matches, and its two groups.                 *)
(***************************************************************************)
LitSitemap == <<"s", "i", "t", "e", "m", "a", "p", "-">>
LitXml == <<".", "x", "m", "l">>

AllDigits(s, from, to) == to <= Len(s) /\ \A k \in from..to : s[k] \in Digit

\* a slip: the dot before xml left unescaped, so that it matches any character
MonthDigitsAt_unescaped_dot(url, p) ==
    LET y == p + Len(LitSitemap)
        m == y + 5
        xml == Tail(LitXml)
    IN  IF ~( /\ StartsWithAt(url, p, LitSitemap)
              /\ AllDigits(url, y, y + 3)
              /\ StartsWithAt(url, y + 4, <<"-">>) )
        THEN 0
        ELSE IF AllDigits(url, m, m + 1) /\ StartsWithAt(url, m + 3, xml) THEN 2
        ELSE IF AllDigits(url, m, m) /\ StartsWithAt(url, m + 2, xml) THEN 1
        ELSE 0

\* the number of digits of the month when the pattern matches at p, else 0
MonthDigitsAt(url, p) ==
    LET y == p + Len(LitSitemap)
        m == y + 5
    IN  IF ~( /\ StartsWithAt(url, p, LitSitemap)
              /\ AllDigits(url, y, y + 3)
              /\ StartsWithAt(url, y + 4, <<"-">>) )
        THEN 0
        ELSE IF AllDigits(url, m, m + 1) /\ StartsWithAt(url, m + 2, LitXml) THEN 2
        ELSE IF AllDigits(url, m, m) /\ StartsWithAt(url, m + 1, LitXml) THEN 1
        ELSE 0

SitemapSearch(url) ==
    LET starts == {p \in 1..Len(url) : MonthDigitsAt(url, p) > 0} IN
    IF starts = {} THEN [found |-> FALSE, year |-> <<>>, month |-> <<>>]
    ELSE
        LET p == SetMin(starts)
            y == p + Len(LitSitemap)
        IN  [ found |-> TRUE,
              year |-> SubSeq(url, y, y + 3),
              month |-> SubSeq(url, y + 5, y + 4 + MonthDigitsAt(url, p)) ]

(***************************************************************************)
(* FileUtility.save_to_json.  The file system maps a file name to the JSON *)
(* array json.dump wrote ([kind "json", the list of asdict(article)]), or  *)
(* to a truncated text when the write failed after open emptied the file.  *)
(***************************************************************************)
FileName(year, month) ==
    <<"a", "r", "t", "i", "c", "l", "e", "s", "_">> \o year \o <<"_">> \o month
    \o <<".", "j", "s", "o", "n">>

JsonFile(data) == [kind |-> "json", array |-> data]
TruncatedFile == [kind |-> "truncated", array |-> <<>>]

\* a slip: nothing is written for an empty list
save_to_json_skip_empty(fs, data, year, month, outcome) ==
    LET filename == FileName(year, month) IN
    IF outcome = "ok" /\ data # <<>>
    THEN [raised |-> FALSE, fs |-> (filename :> JsonFile(data)) @@ fs]
    ELSE [raised |-> outcome # "ok", fs |-> fs]

\* outcome "ok": the array is written; "open_error": open raises and the files
\* are as before; "write_error": the file is left truncated and the write raises
save_to_json(fs, data, year, month, outcome) ==
    LET filename == FileName(year, month) IN
    CASE outcome = "ok" ->
            [raised |-> FALSE, fs |-> (filename :> JsonFile(data)) @@ fs]
      [] outcome = "open_error" ->
            [raised |-> TRUE, fs |-> fs]
      [] outcome = "write_error" ->
            [raised |-> TRUE, fs |-> (filename :> TruncatedFile) @@ fs]
WriteOutcomes == {"ok", "open_error", "write_error"}

(***************************************************************************)
(* The site the driver runs against.                                       *)
(***************************************************************************)
MaxSitemaps == 2    \* the index lists at most this many sitemap URLs
MaxFail == 2        \* at most this many article fetches of a run fail
MAX_I == 10         \* main: "if i>10: break"

Y2023 == <<"2", "0", "2", "3">>
\* /sitemap-2023-7.xml
UrlJuly == <<"/">> \o LitSitemap \o Y2023 \o <<"-", "7">> \o LitXml
\* /sitemap-2023-12.xml
UrlDecember == <<"/">> \o LitSitemap \o Y2023 \o <<"-", "1", "2">> \o LitXml
\* /old/sitemap-2023-7.xml.gz
UrlOld == <<"/", "o", "l", "d", "/">> \o LitSitemap \o Y2023 \o <<"-", "7">>
          \o LitXml \o <<".", "g", "z">>
\* /sitemap-2023-123.xml
UrlThreeDigits == <<"/">> \o LitSitemap \o Y2023 \o <<"-", "1", "2", "3">> \o LitXml
\* /sitemap-2023-7-xml
UrlNoDot == <<"/">> \o LitSitemap \o Y2023 \o <<"-", "7", "-", "x", "m", "l">>
SitemapUrls == {UrlJuly, UrlDecember, UrlOld, UrlThreeDigits, UrlNoDot}

RECURSIVE SeqsUpTo(_, _)
\* the sequences over S of length at most n that repeat no element
SeqsUpTo(S, n) ==
    IF n = 0 THEN {<<>>}
    ELSE LET shorter == SeqsUpTo(S, n - 1) IN
         shorter \cup UNION { {Append(q, x) : x \in S \ {q[k] : k \in 1..Len(q)}} :
                              q \in shorter }

IndexBody(urls) ==
    <<Element("lastmod", <<>>)>> \o [k \in 1..Len(urls) |-> Loc(urls[k])]
ErrorBody == <<Element("title", <<"e", "r", "r">>), Loc(UrlDecember)>>

\* what requests.get of the index URL can produce
IndexResponses ==
    {NetworkError, Response(404, ErrorBody)}
    \cup {Response(200, IndexBody(urls)) : urls \in SeqsUpTo(SitemapUrls, MaxSitemaps)}

\* article URLs are numbered; July lists MAX_I + 2 of them, December two, the
\* old sitemap none
Letters == <<"a", "b", "c", "d", "e", "f", "g", "h", "i", "j", "k", "l", "m", "n">>
FirstOfDecember == MAX_I + 3
ArticleList(sitemap_url) ==
    IF sitemap_url = UrlJuly THEN [k \in 1..(MAX_I + 2) |-> k]
    ELSE IF sitemap_url = UrlDecember THEN <<FirstOfDecember, FirstOfDecember + 1>>
    ELSE <<>>
ListBody(urls) ==
    [k \in 1..(2 * Len(urls)) |->
        IF k % 2 = 1 THEN Loc(urls[(k + 1) \div 2]) ELSE Element("lastmod", <<>>)]

\* what requests.get of a monthly sitemap URL can produce
ListResponses(sitemap_url) ==
    { NetworkError,
      Response(200, ListBody(ArticleList(sitemap_url))),
      Response(503, <<Element("title", <<"e", "r", "r">>), Loc(FirstOfDecember + 1)>>) }

\* the page of article u: the first article of December holds keywords null,
\* every fourth page holds no metadata or a malformed one, the others hold a
\* postid of their own
ArticlePage(u) ==
    LET id == Str(<<Letters[u]>>) IN
    IF u = FirstOfDecember
    THEN MetaPage(Encode(Obj((K_postid :> id) @@ (K_keywords :> None))))
    ELSE IF u % 8 = 0 THEN Page(<<>>)
    ELSE IF u % 8 = 4 THEN MetaPage(<<"{", Quote, "a", Quote, "}">>)
    ELSE MetaPage(<<"x", "=">>
                  \o Encode(Obj((K_postid :> id) @@ (K_keywords :> Str(<<"a", ",", "b">>))))
                  \o <<";">>)

\* the article URLs whose fetch can fail: the first, the 6th, the 10th and
\* the last one under the cap in July, the last one in December
Flaky == {1, 6, 10, MAX_I + 1, FirstOfDecember + 1}

\* what requests.get of an article URL can produce while the run has seen
\* `count` failures
ArticleResponses(u, count) ==
    {Response(200, ArticlePage(u))}
    \cup (IF u \in Flaky /\ count < MaxFail THEN {NetworkError} ELSE {})

\* scrape_article on every response an article URL can get, computed once
ScrapeResults ==
    [resp \in UNION {ArticleResponses(u, 0) : u \in 1..Len(Letters)} |->
        scrape_article(resp)]

(***************************************************************************)
(* The driver, main().  pc is the place of the run: "start" before the     *)
(* index is fetched, "loop" at the head of the loop over monthly sitemaps, *)
(* "scrape" in the loop over the article URLs of one month, "done" after   *)
(* main returned, "crashed" after an exception left main.                  *)
(* monthly_sitemaps, year, month, article_urls, articles and i are main's  *)
(* locals; si and ai are the positions of the outer and the inner for      *)
(* loop; files is the directory.  failed counts the failed article         *)
(* fetches; log is the history of the calls main made, [op, s, a, ok, out]:*)
(* the operation, the position of the sitemap and of the article URL it    *)
(* was made for, whether it returned, and what it returned or was given    *)
(* (index, list: [kind, status, urls]; extract: [url, article]; write:     *)
(* [file, data]).  xcase and xres belong to the extractor run, below.       *)
(***************************************************************************)
VARIABLES pc, monthly_sitemaps, si, year, month, article_urls, articles, i, ai,
          files, failed, log, xcase, xres

vars == <<pc, monthly_sitemaps, si, year, month, article_urls, articles, i, ai,
          files, failed, log, xcase, xres>>

Event(op, s, a, ok, out) == [op |-> op, s |-> s, a |-> a, ok |-> ok, out |-> out]
Listing(resp, r) == [kind |-> resp.kind, status |-> resp.status, urls |-> r.urls]

NotRun == [raised |-> FALSE, exc |-> "not run", article |-> None]

\* a slip: the list is created once, before the loop over the sitemaps
NewArticles_shared(previous) == previous

\* line 120: articles = []
NewArticles(previous) == <<>>

\* a slip: the cap off by one
CapReached_off_by_one(count) == count > MAX_I + 1

\* line 125: if i>10: break
CapReached(count) == count > MAX_I

\* a slip: a failed URL is tried again
AdvanceIter_retry(position, r) == IF r.raised THEN position ELSE position + 1

\* line 124: the for loop hands out the next URL after every pass
AdvanceIter(position, r) == position + 1

\* a slip: only the errors of requests are caught
Caught_requests_only(exc) == exc = "RequestException"

\* lines 127-131: except Exception catches what scrape_article raises
ExceptionClasses == {"RequestException", "AttributeError"}
Caught(exc) == exc \in ExceptionClasses

\* lines 128-129: the article is appended when scrape_article returned
Collected(list, r) == IF r.raised THEN list ELSE Append(list, r.article)

DriverInit ==
    /\ pc = "start"
    /\ monthly_sitemaps = <<>>
    /\ si = 0
    /\ year = <<>>
    /\ month = <<>>
    /\ article_urls = <<>>
    /\ articles = <<>>
    /\ i = 0
    /\ ai = 0
    /\ files = <<>>
    /\ failed = 0
    /\ log = <<>>

Init ==
    /\ DriverInit
    /\ xcase = [kind |-> "none", meta |-> EmptyDict, resp |-> NetworkError]
    /\ xres = NotRun

\* line 109: monthly_sitemaps = sitemap_parser.get_monthly_sitemaps()
FetchIndex ==
    /\ pc = "start"
    /\ \E resp \in IndexResponses :
        LET r == get_monthly_sitemaps(resp) IN
        /\ log' = Append(log, Event("index", 0, 0, ~r.raised, Listing(resp, r)))
        /\ IF r.raised
           THEN /\ pc' = "crashed"
                /\ UNCHANGED <<monthly_sitemaps, si>>
           ELSE /\ pc' = "loop"
                /\ monthly_sitemaps' = r.urls
                /\ si' = 1
    /\ UNCHANGED <<year, month, article_urls, articles, i, ai, files, failed,
                   xcase, xres>>

\* lines 112-115: the pattern does not match; on to the next sitemap URL
SkipSitemap ==
    /\ pc = "loop"
    /\ si <= Len(monthly_sitemaps)
    /\ ~SitemapSearch(monthly_sitemaps[si]).found
    /\ si' = si + 1
    /\ UNCHANGED <<pc, monthly_sitemaps, year, month, article_urls, articles, i,
                   ai, files, failed, log, xcase, xres>>

\* lines 112-123: the pattern matches; the month's article URLs are fetched
ListArticles ==
    /\ pc = "loop"
    /\ si <= Len(monthly_sitemaps)
    /\ LET match == SitemapSearch(monthly_sitemaps[si]) IN
        /\ match.found
        /\ \E resp \in ListResponses(monthly_sitemaps[si]) :
            LET r == get_article_urls(resp) IN
            /\ log' = Append(log, Event("list", si, 0, ~r.raised, Listing(resp, r)))
            /\ year' = match.year
            /\ month' = match.month
            /\ IF r.raised
               THEN /\ pc' = "crashed"
                    /\ UNCHANGED <<article_urls, articles, i, ai>>
               ELSE /\ pc' = "scrape"
                    /\ article_urls' = r.urls
                    /\ articles' = NewArticles(articles)
                    /\ i' = 0
                    /\ ai' = 0
    /\ UNCHANGED <<monthly_sitemaps, si, files, failed, xcase, xres>>

\* lines 124-132: one pass of the inner loop
ScrapeArticle ==
    /\ pc = "scrape"
    /\ ai + 1 <= Len(article_urls)
    /\ ~CapReached(i)
    /\ LET url == article_urls[ai + 1] IN
        \E resp \in ArticleResponses(url, failed) :
            LET r == ScrapeResults[resp] IN
            /\ failed' = IF resp.kind = "error" THEN failed + 1 ELSE failed
            /\ log' = Append(log, Event("extract", si, ai + 1, ~r.raised,
                                         [url |-> url, article |-> r.article]))
            /\ IF r.raised /\ ~Caught(r.exc)
               THEN /\ pc' = "crashed"
                    /\ UNCHANGED <<articles, i, ai>>
               ELSE /\ pc' = "scrape"
                    /\ articles' = Collected(articles, r)
                    /\ i' = i + 1
                    /\ ai' = AdvanceIter(ai, r)
    /\ UNCHANGED <<monthly_sitemaps, si, year, month, article_urls, files,
                   xcase, xres>>

\* lines 124-126 and 134: the inner loop ends and the month is saved
SaveMonth ==
    /\ pc = "scrape"
    /\ (ai + 1 > Len(article_urls) \/ CapReached(i))
    /\ \E outcome \in WriteOutcomes :
        LET w == save_to_json(files, articles, year, month, outcome) IN
        /\ files' = w.fs
        /\ log' = Append(log, Event("write", si, 0, ~w.raised,
                                 [file |-> FileName(year, month), data |-> articles]))
        /\ IF w.raised
           THEN /\ pc' = "crashed"
                /\ si' = si
           ELSE /\ pc' = "loop"
                /\ si' = si + 1
    /\ UNCHANGED <<monthly_sitemaps, year, month, article_urls, articles, i, ai,
                   failed, xcase, xres>>

\* line 112: the outer loop is exhausted and main returns
Finish ==
    /\ pc = "loop"
    /\ si > Len(monthly_sitemaps)
    /\ pc' = "done"
    /\ UNCHANGED <<monthly_sitemaps, si, year, month, article_urls, articles, i,
                   ai, files, failed, log, xcase, xres>>

Next == FetchIndex \/ SkipSitemap \/ ListArticles \/ ScrapeArticle \/ SaveMonth \/ Finish

Spec == Init /\ [][Next]_vars

\* main is one sequential thread: it takes its next step whenever it has one
FairSpec == Spec /\ WF_vars(Next)

(***************************************************************************)
(* The extractor alone: scrape_article applied to one response.            *)
(***************************************************************************)
Case(kind, meta, resp) == [kind |-> kind, meta |-> meta, resp |-> resp]
ExactPage(m) == MetaPage(Encode(Obj(m)))
WrappedPage(m) == MetaPage(<<"x", " ", "=", " ">> \o Encode(Obj(m)) \o <<";">>)

\* the inputs: what the page was built from, and the response that carries it
ExtractCases ==
    {Case("error", EmptyDict, NetworkError)}
    \cup {Case("no-script", EmptyDict, Response(st, p)) :
            st \in {200, 404}, p \in NoMetaPages}
    \cup {Case("exact", m, Response(200, ExactPage(m))) : m \in ValidMetas}
    \cup {Case("bad-keywords", m, Response(200, ExactPage(m))) : m \in BadKeywordMetas}
    \cup {Case("partial", m, Response(200, ExactPage(m))) : m \in PartialMetas}
    \cup {Case("partial", m, Response(200, WrappedPage(m))) : m \in PartialMetas}
    \cup {Case("malformed", EmptyDict, Response(st, MetaPage(text))) :
            st \in {200, 404}, text \in MalformedTexts}

ExtractInit ==
    /\ DriverInit
    /\ xcase \in ExtractCases
    /\ xres = NotRun

Extract ==
    /\ xres = NotRun
    /\ xres' = scrape_article(xcase.resp)
    /\ UNCHANGED <<xcase, pc, monthly_sitemaps, si, year, month, article_urls,
                   articles, i, ai, files, failed, log>>

ExtractNext == Extract

ExtractSpec == ExtractInit /\ [][ExtractNext]_vars

(***************************************************************************)
(* The extractor's properties, checked under ExtractSpec.                  *)
(***************************************************************************)
Extracted == xres # NotRun

\* the field of the record that belongs to each key
FieldString ==
    (K_type :> "type") @@ (K_postid :> "postid") @@ (K_title :> "title")
    @@ (K_url :> "url") @@ (K_keywords :> "keywords") @@ (K_thumbnail :> "thumbnail")
    @@ (K_video_duration :> "video_duration") @@ (K_word_count :> "word_count")
    @@ (K_lang :> "lang") @@ (K_published_time :> "published_time")
    @@ (K_last_updated :> "last_updated") @@ (K_description :> "description")
    @@ (K_author :> "author") @@ (K_classes :> "classes") @@ (K_html :> "html")
    @@ (K_lite_url :> "lite_url")

\* what extract returns for a page that holds no metadata script element
NoScriptResult == scrape_article(Response(200, Page(<<>>)))

\* the record whose plain fields are null and whose three defaulted fields
\* hold their defaults
DefaultsRecord ==
    [ type |-> None, postid |-> None, title |-> None, url |-> None,
      keywords |-> Arr(<<Str(<<>>)>>), thumbnail |-> None,
      video_duration |-> None, word_count |-> None, lang |-> None,
      published_time |-> None, last_updated |-> None, description |-> None,
      author |-> None, classes |-> Arr(<<>>), html |-> Str(<<>>),
      lite_url |-> None ]

\* C7 as stated: for a page whose metadata script holds no brace span or a
\* span that is no valid JSON, extract does not raise and returns the record
\* of a page without the script, all of whose metadata-derived fields are null.
C7_MalformedGivesAllNullRecord ==
    (xcase.kind = "malformed" /\ Extracted) =>
        /\ ~xres.raised
        /\ xres.article = NoScriptResult.article
        /\ \A k \in FieldKeys : xres.article[FieldString[k]] = None

\* C7 as amended: for such a page extract does not raise and returns the
\* record of a page without the script: null in the thirteen fields read
\* without a default, and [""] in keywords, [] in classes, "" in html.
C7_MalformedGivesNoScriptRecord ==
    (xcase.kind = "malformed" /\ Extracted) =>
        /\ ~xres.raised
        /\ ~NoScriptResult.raised
        /\ xres.article = NoScriptResult.article
        /\ xres.article = DefaultsRecord

\* a malformed page whose script holds a brace span, after extract ran on it
C7_Witness ==
    /\ xcase.kind = "malformed"
    /\ Extracted
    /\ ~xres.raised
    /\ \E k \in 1..Len(xcase.resp.content.scripts) :
        LET sc == xcase.resp.content.scripts[k] IN
        /\ sc.id = METADATA_ID
        /\ \E a, b \in 1..Len(sc.text) : a < b /\ sc.text[a] = "{" /\ sc.text[b] = "}"

RECURSIVE JoinWithComma(_)
JoinWithComma(pieces) ==
    IF Len(pieces) = 1 THEN pieces[1]
    ELSE pieces[1] \o <<",">> \o JoinWithComma(Tail(pieces))

\* list is the list of the comma-free texts whose join by "," is s
IsCommaSplitOf(list, s) ==
    /\ list.t = "arr"
    /\ Len(list.v) >= 1
    /\ \A k \in 1..Len(list.v) :
        /\ list.v[k].t = "str"
        /\ \A c \in 1..Len(list.v[k].v) : list.v[k].v[c] # ","
    /\ JoinWithComma([k \in 1..Len(list.v) |-> list.v[k].v]) = s

\* C8 as stated: for a page whose metadata script holds exactly the valid
\* mapping M, each field of the record equals M's value under the same key.
C8_EveryFieldEqualsMetadata ==
    (xcase.kind = "exact" /\ Extracted) =>
        /\ ~xres.raised
        /\ \A k \in FieldKeys : xres.article[FieldString[k]] = xcase.meta[k]

\* C8 as amended: each field other than keywords equals M's value under the
\* same key, and keywords is the list of the pieces of M's keywords string
\* between its commas.
C8_FieldsEqualMetadataKeywordsSplit ==
    (xcase.kind = "exact" /\ Extracted) =>
        /\ ~xres.raised
        /\ \A k \in FieldKeys \ {K_keywords} :
            xres.article[FieldString[k]] = xcase.meta[k]
        /\ IsCommaSplitOf(xres.article.keywords, xcase.meta[K_keywords].v)

\* extract ran on a page that holds a full mapping with two keywords
C8_Witness ==
    /\ xcase.kind = "exact"
    /\ Extracted
    /\ ~xres.raised
    /\ xcase.meta[K_keywords] = Str(<<"a", ",", "b">>)
    /\ xcase.meta[K_classes] # Arr(<<>>)
    /\ xcase.meta[K_video_duration] = None

(***************************************************************************)
(* The driver's properties, checked under Spec, read off the log.          *)
(***************************************************************************)
LogIdx == 1..Len(log)
Min(a, b) == IF a < b THEN a ELSE b
EventsOf(op, s) == {k \in LogIdx : log[k].op = op /\ log[k].s = s}
OkEventsOf(op, s) == {k \in EventsOf(op, s) : log[k].ok}
\* the article URLs that were listed for the sitemap at position s
Listed(s) == log[CHOOSE k \in EventsOf("list", s) : TRUE].out.urls
\* the extraction attempts made for s among the first k events
AttemptsUpTo(s, k) ==
    SelectSeq(SubSeq(log, 1, k), LAMBDA e : e.op = "extract" /\ e.s = s)
ArticlesOf(events) == [j \in 1..Len(events) |-> events[j].out.article]
HoldsArray(name, data) == name \in DOMAIN files /\ files[name] = JsonFile(data)

\* the pattern sitemap-<4 digits>-<1 or 2 digits>.xml occurs in url
PatternOccurs(url) ==
    \E p \in 1..Len(url), d \in {1, 2} :
        /\ p + 16 + d <= Len(url)
        /\ SubSeq(url, p, p + 7) = <<"s", "i", "t", "e", "m", "a", "p", "-">>
        /\ \A k \in (p + 8)..(p + 11) : url[k] \in Digit
        /\ url[p + 12] = "-"
        /\ \A k \in (p + 13)..(p + 12 + d) : url[k] \in Digit
        /\ SubSeq(url, p + 13 + d, p + 16 + d) = <<".", "x", "m", "l">>

\* C1: the file written for a matching sitemap with article list U holds, in
\* the order of U, one record per successful extraction among the first 11
\* entries of U; failed entries and entries from the 12th on give no record,
\* and failed attempts count toward the 11.
C1_FileHoldsSuccessesOfFirstEleven ==
    \A kw \in LogIdx :
        (log[kw].op = "write" /\ log[kw].ok) =>
            LET s == log[kw].s
                U == Listed(s)
                att == AttemptsUpTo(s, kw)
                good == SelectSeq(att, LAMBDA e : e.ok)
            IN  /\ PatternOccurs(monthly_sitemaps[s])
                /\ Len(att) = Min(Len(U), 11)
                /\ \A j \in 1..Len(att) : att[j].a = j /\ att[j].out.url = U[j]
                /\ log[kw].out.data = ArticlesOf(good)
                /\ kw = Len(log) => HoldsArray(log[kw].out.file, ArticlesOf(good))

\* a month of more than 11 URLs was saved after its 6th and 10th URL failed
C1_Witness ==
    \E kw \in LogIdx :
        /\ log[kw].op = "write"
        /\ log[kw].ok
        /\ kw = Len(log)
        /\ Len(Listed(log[kw].s)) > 11
        /\ {log[k].a : k \in EventsOf("extract", log[kw].s) \ OkEventsOf("extract", log[kw].s)}
            = {6, 10}
        /\ Len(log[kw].out.data) = 9
        /\ HoldsArray(log[kw].out.file, log[kw].out.data)

\* C2: an extraction that raises does not end the run: the remaining URLs of
\* the month are attempted up to the cap, the month's file is written without
\* that article, and every later monthly sitemap is processed.
C2_ExtractionFailureDoesNotEndRun ==
    \A k \in LogIdx :
        (log[k].op = "extract" /\ ~log[k].ok) =>
            LET s == log[k].s
                a == log[k].a
                n == Min(Len(Listed(s)), 11)
            IN  /\ k = Len(log) => (pc = "scrape" /\ si = s)
                /\ k < Len(log) =>
                    IF a < n
                    THEN log[k + 1].op = "extract" /\ log[k + 1].s = s /\ log[k + 1].a = a + 1
                    ELSE log[k + 1].op = "write" /\ log[k + 1].s = s
                /\ \A kw \in EventsOf("write", s) :
                    /\ kw > k
                    /\ log[kw].out.data
                        = ArticlesOf(SelectSeq(AttemptsUpTo(s, kw), LAMBDA e : e.ok))
                    /\ (log[kw].ok /\ kw = Len(log)) =>
                            HoldsArray(log[kw].out.file, log[kw].out.data)
                /\ pc = "done" =>
                    /\ OkEventsOf("write", s) # {}
                    /\ \A s2 \in (s + 1)..Len(monthly_sitemaps) :
                        PatternOccurs(monthly_sitemaps[s2]) =>
                            OkEventsOf("list", s2) # {} /\ OkEventsOf("write", s2) # {}

\* the run ended normally although an extraction failed before the end of its
\* month, and that month and a later one were both saved
C2_Witness ==
    /\ pc = "done"
    /\ \E k \in LogIdx :
        /\ log[k].op = "extract"
        /\ ~log[k].ok
        /\ log[k].a < Min(Len(Listed(log[k].s)), 11)
        /\ \E kw \in OkEventsOf("write", log[k].s) : log[kw].out.data # <<>>
        /\ \E s2 \in (log[k].s + 1)..Len(monthly_sitemaps) : OkEventsOf("write", s2) # {}

\* C3: for every matching sitemap whose article list was fetched the writer
\* is invoked exactly once, after the month's last extraction attempt and
\* before anything is done for the next sitemap, also when no record was
\* collected; the file then holds the empty array.
C3_WriterRunsOncePerListedMonth ==
    \A k \in LogIdx :
        (log[k].op = "list" /\ log[k].ok) =>
            LET s == log[k].s
                W == EventsOf("write", s)
                X == EventsOf("extract", s)
            IN  /\ Cardinality(W) <= 1
                /\ W = {} => (pc = "scrape" /\ si = s)
                /\ \A w \in W :
                    /\ \A j \in LogIdx : (k < j /\ j < w) <=> j \in X
                    /\ \A j \in LogIdx : j > w => log[j].s > s
                    /\ OkEventsOf("extract", s) = {} => log[w].out.data = <<>>
                    /\ (log[w].ok /\ w = Len(log)) =>
                            HoldsArray(log[w].out.file, log[w].out.data)

\* the run saved a month that listed no URL and then a month whose every
\* attempt failed; the file of the latter holds the empty array
C3_Witness ==
    /\ pc = "loop"
    /\ \E k1, k2 \in LogIdx :
        /\ log[k1].op = "list" /\ log[k1].ok /\ log[k1].out.urls = <<>>
        /\ log[k2].op = "list" /\ log[k2].ok /\ log[k2].out.urls # <<>>
        /\ log[k1].s < log[k2].s
        /\ OkEventsOf("write", log[k1].s) # {}
        /\ EventsOf("extract", log[k2].s) # {}
        /\ OkEventsOf("extract", log[k2].s) = {}
        /\ log[Len(log)].op = "write" /\ log[Len(log)].ok /\ log[Len(log)].s = log[k2].s
        /\ HoldsArray(log[Len(log)].out.file, <<>>)

\* C4: a sitemap URL in which the pattern does not occur is skipped: nothing
\* is fetched, extracted or written for it, no error is raised, and the
\* driver goes on with the next sitemap URL.
C4_UnmatchedSitemapIsSkipped ==
    \A s \in 1..Len(monthly_sitemaps) :
        ~PatternOccurs(monthly_sitemaps[s]) =>
            /\ \A k \in LogIdx : log[k].s # s
            /\ si = s => pc = "loop"
            /\ pc = "crashed" => (log # <<>> /\ ~log[Len(log)].ok /\ si # s)
            /\ Cardinality(DOMAIN files)
                <= Cardinality({k \in LogIdx : log[k].op = "write"})
            /\ pc = "done" =>
                \A s2 \in (s + 1)..Len(monthly_sitemaps) :
                    PatternOccurs(monthly_sitemaps[s2]) => OkEventsOf("list", s2) # {}

\* the run ended normally after it skipped an unmatched URL and saved the
\* sitemap listed after it
C4_Witness ==
    /\ pc = "done"
    /\ \E s \in 1..Len(monthly_sitemaps) :
        /\ ~PatternOccurs(monthly_sitemaps[s])
        /\ \A k \in LogIdx : log[k].s # s
        /\ \E s2 \in (s + 1)..Len(monthly_sitemaps) : OkEventsOf("write", s2) # {}

RECURSIVE FilesAfter(_)
\* the directory after the successful writes among the events
FilesAfter(events) ==
    IF events = <<>> THEN <<>>
    ELSE
        LET e == events[Len(events)]
            rest == FilesAfter(SubSeq(events, 1, Len(events) - 1))
        IN  IF e.op = "write" /\ e.ok
            THEN (e.out.file :> JsonFile(e.out.data)) @@ rest
            ELSE rest

\* C5: when the request for the index or for a month's article list raises,
\* main does not catch it: the run ends there, nothing is fetched, extracted
\* or written afterwards, no file is written for that month, and the files
\* written before are as they were.
C5_ListingFailureEndsRun ==
    \A k \in LogIdx :
        (log[k].op \in {"index", "list"} /\ log[k].out.kind = "error") =>
            /\ ~log[k].ok
            /\ k = Len(log)
            /\ pc = "crashed"
            /\ EventsOf("extract", log[k].s) = {}
            /\ EventsOf("write", log[k].s) = {}
            /\ files = FilesAfter(SubSeq(log, 1, k - 1))

\* the list of the second sitemap could not be fetched after the first month
\* was saved with records in its file
C5_Witness ==
    /\ pc = "crashed"
    /\ log # <<>>
    /\ log[Len(log)].op = "list"
    /\ log[Len(log)].out.kind = "error"
    /\ log[Len(log)].s > 1
    /\ \E kw \in OkEventsOf("write", 1) :
        /\ log[kw].out.data # <<>>
        /\ HoldsArray(log[kw].out.file, log[kw].out.data)

\* C6: get_monthly_sitemaps and get_article_urls fail whenever the request
\* does not succeed, a non-2xx answer included: no URL sequence is returned
\* and the body of the answer is not read for loc elements.
C6_NonSuccessStatusFails ==
    \A k \in LogIdx :
        ( /\ log[k].op \in {"index", "list"}
          /\ (log[k].out.kind = "error" \/ log[k].out.status \notin 200..299) ) =>
            (~log[k].ok /\ log[k].out.urls = <<>>)

\* C9: each month's collection starts empty and holds only what was extracted
\* for that month: the file written for a sitemap holds no record collected
\* for an earlier sitemap.
C9_MonthCollectionsAreSeparate ==
    /\ (pc = "scrape" /\ i = 0) => articles = <<>>
    /\ pc = "scrape" =>
        articles = ArticlesOf(SelectSeq(AttemptsUpTo(si, Len(log)), LAMBDA e : e.ok))
    /\ \A kw \in LogIdx :
        log[kw].op = "write" =>
            LET s == log[kw].s
                data == log[kw].out.data
            IN  /\ Len(data) <= Cardinality(OkEventsOf("extract", s))
                /\ \A j \in 1..Len(data) :
                    \E x \in OkEventsOf("extract", s) :
                        /\ x < kw
                        /\ log[x].out.article = data[j]
                        /\ log[x].out.url \in {Listed(s)[a] : a \in 1..Len(Listed(s))}

\* two months were saved, each with records, after a failure in the second
C9_Witness ==
    /\ pc = "done"
    /\ \E k1, k2 \in LogIdx :
        /\ log[k1].op = "write" /\ log[k1].ok /\ log[k1].out.data # <<>>
        /\ log[k2].op = "write" /\ log[k2].ok /\ log[k2].out.data # <<>>
        /\ log[k1].s < log[k2].s
        /\ EventsOf("extract", log[k2].s) # OkEventsOf("extract", log[k2].s)
        /\ \A j \in 1..Len(log[k2].out.data) :
            \A m \in 1..Len(log[k1].out.data) : log[k2].out.data[j] # log[k1].out.data[m]

Terminated == pc \in {"done", "crashed"}

\* one index fetch at most, one list fetch at most per sitemap, 11 attempts
\* at most per sitemap, no list entry attempted twice
WithinBudget ==
    /\ Cardinality({k \in LogIdx : log[k].op = "index"}) <= 1
    /\ \A s \in 1..Len(monthly_sitemaps) :
        /\ Cardinality(EventsOf("list", s)) <= 1
        /\ Cardinality(EventsOf("extract", s)) <= 11
        /\ EventsOf("list", s) # {} => PatternOccurs(monthly_sitemaps[s])
    /\ \A k1, k2 \in LogIdx :
        ( /\ log[k1].op = "extract" /\ log[k2].op = "extract"
          /\ log[k1].s = log[k2].s /\ log[k1].a = log[k2].a ) => k1 = k2

\* C10: when every call returns or fails, the run terminates, and until then
\* it makes at most one index fetch, one list fetch per matching sitemap and
\* 11 extraction attempts per matching sitemap, none of them a retry.
C10_TerminatesWithinBudget == []WithinBudget /\ <>Terminated

\* the run ended after 11 attempts on a month, one of them failed
C10_Witness ==
    /\ pc = "done"
    /\ \E s \in 1..Len(monthly_sitemaps) :
        /\ Cardinality(EventsOf("extract", s)) = 11
        /\ Len(Listed(s)) > 11
        /\ OkEventsOf("extract", s) # EventsOf("extract", s)

====
